---- MODULE Spec2Model ----
(***************************************************************************)
(* A model of three parts of the repository:                               *)
(*   - htase/custodian/vasp/run_vasp_custodian.py, the linear script that  *)
(*     reads a YAML settings file and starts VASP (specification Spec);    *)
(*   - the @job / @subflow workflows of tests/dask and tests/parsl         *)
(*     (specifications WfSpec and WfFairSpec);                             *)
(*   - the MACE recipes of src/quacc/recipes/mace/core.py (MaceSpec).      *)
(*                                                                         *)
(* A Python string is a sequence of lexical atoms: "$A" is <<"$", "A">>,   *)
(* "" is << >>, so that v[0], v[1:], + and shlex.split are computed and    *)
(* not assumed.  A YAML / Python value is a tagged record.                 *)
(***************************************************************************)
EXTENDS Integers, Sequences, FiniteSets, TLC

VARIABLES
    \* ---- run_vasp_custodian.py ----
    pc,                 \* position of the script
    environ,            \* os.environ: variable name -> value
    files,              \* the file system: path -> parsed YAML mapping
    settings_path,
    config,             \* the settings mapping, a sequence of <<key, value>>
    loaded,             \* the mapping as yaml.safe_load returned it
    opened,             \* the paths given to open(), in order
    handlers_dict,
    validators_dict,
    handlers,
    validators,
    custodian_enabled,
    vasp_cmd,
    vasp_gamma_cmd,
    max_errors,
    wall_time,
    scratch_dir,
    vasp_job_kwargs,
    custodian_kwargs,
    split_vasp_cmd,
    jobs,               \* the VaspJob objects constructed
    c,                  \* the Custodian object, once constructed
    runs,               \* number of Custodian.run() calls
    calls,              \* the commands given to subprocess.call, in order
    return_code,
    log,                \* logger.info records
    err,                \* the exception that ended the script, if any
    events,             \* the steps the script has completed, in order
    \* ---- the @job / @subflow workflows of tests/dask and tests/parsl ----
    workflow,           \* which test's workflow is run
    inputs,             \* its arguments
    tasks,              \* per engine: the tasks the decorated calls made
    submitted,          \* per engine: may the engine run tasks yet
    called,             \* per engine: decorated calls the test has made
    result,             \* per engine: what the test fetched in the end
    \* ---- src/quacc/recipes/mace/core.py ----
    has_mace,           \* bool(find_spec("mace"))
    has_sella,          \* bool(find_spec("sella"))
    recipe,             \* the recipe that is called
    atoms,              \* the caller's Atoms object
    atoms0,             \* that object as it was when the call was made
    calc_kwargs,        \* **calc_kwargs of the call
    opt_params,         \* opt_params of the call
    mpc,                \* position in the recipe
    calc,               \* the calculator constructed: its keyword arguments
    final_atoms,        \* what the runner returned
    output,             \* the summary the recipe returned
    merr                \* the exception that ended the call, if any

scriptVars == <<pc, environ, files, settings_path, config, loaded, opened,
                handlers_dict, validators_dict, handlers, validators,
                custodian_enabled, vasp_cmd, vasp_gamma_cmd, max_errors,
                wall_time, scratch_dir, vasp_job_kwargs, custodian_kwargs,
                split_vasp_cmd, jobs, c, runs, calls, return_code, log, err,
                events>>

wfVars == <<workflow, inputs, tasks, submitted, called, result>>

maceVars == <<has_mace, has_sella, recipe, atoms, atoms0, calc_kwargs,
              opt_params, mpc, calc, final_atoms, output, merr>>

vars == <<scriptVars, wfVars, maceVars>>

-----------------------------------------------------------------------------
(* Values *)

None == [t |-> "none"]
Unbound == [t |-> "unbound"]
Absent == [t |-> "absent"]      \* a key the settings file does not hold
VStr(s) == [t |-> "str", s |-> s]
VBool(b) == [t |-> "bool", b |-> b]
VInt(n) == [t |-> "int", n |-> n]
VList(l) == [t |-> "list", l |-> l]
VDict(d) == [t |-> "dict", d |-> d]     \* d: a function from keys to values
VTuple(l) == [t |-> "tuple", l |-> l]

EmptyDict == VDict(<<>>)

NoError == [type |-> "none", msg |-> <<>>]
Error(type, msg) == [type |-> type, msg |-> msg]

\* Python truthiness of a value (the `if custodian_enabled:` test)
Truthy(v) ==
    CASE v.t = "bool" -> v.b
      [] v.t = "none" -> FALSE
      [] v.t = "int" -> v.n # 0
      [] v.t = "str" -> v.s # <<>>
      [] v.t = "list" -> v.l # <<>>
      [] v.t = "dict" -> DOMAIN v.d # {}
      [] OTHER -> TRUE

\* k in config
Has(cfg, k) == \E i \in 1..Len(cfg) : cfg[i][1] = k

\* config.get(k, default)
Get(cfg, k, default) ==
    IF Has(cfg, k)
    THEN cfg[CHOOSE i \in 1..Len(cfg) : cfg[i][1] = k][2]
    ELSE default


\* config[k], for a key that is there
Lookup(cfg, k) == cfg[CHOOSE i \in 1..Len(cfg) : cfg[i][1] = k][2]

\* d[k] = v on a dict value
DictSet(d, k, v) == VDict((k :> v) @@ d.d)

-----------------------------------------------------------------------------
(* run_vasp_custodian.py: pure steps *)

SETTINGS_VAR == <<"VASP_CUSTODIAN_SETTINGS">>

\* Lines 38-43 from item i on: the mapping after the loop, or the mapping as
\* the loop left it together with the exception that ended it.  v[0] of an
\* empty string raises IndexError; v[1:] is Tail.
RECURSIVE SubstituteFrom(_, _, _)
SubstituteFrom(cfg, i, env) ==
    IF i > Len(cfg) THEN [config |-> cfg, err |-> NoError]
    ELSE LET v == cfg[i][2] IN
         IF v.t # "str" THEN SubstituteFrom(cfg, i + 1, env)
         ELSE IF v.s = <<>>
              THEN [config |-> cfg,
                    err |-> Error("IndexError", <<"string index out of range">>)]
         ELSE IF Head(v.s) # "$" THEN SubstituteFrom(cfg, i + 1, env)
         ELSE IF Tail(v.s) \in DOMAIN env
              THEN SubstituteFrom([cfg EXCEPT ![i][2] = VStr(env[Tail(v.s)])],
                                  i + 1, env)
         ELSE [config |-> cfg,
               err |-> Error("EnvironmentError",
                             <<"Missing environment variable ">> \o Tail(v.s))]

Substitute(cfg, env) == SubstituteFrom(cfg, 1, env)

\* A handler or validator object: its class and its constructor argument
Obj(cls, arg) == [cls |-> cls, arg |-> arg]

HandlerNames ==
    {"VaspErrorHandler", "FrozenJobErrorHandler", "IncorrectSmearingHandler",
     "LargeSigmaHandler", "MeshSymmetryErrorHandler",
     "NonConvergingErrorHandler", "PositiveEnergyErrorHandler",
     "PotimErrorHandler", "StdErrHandler", "UnconvergedErrorHandler",
     "WalltimeHandler", "ScanMetalHandler"}

ValidatorNames == {"VaspFilesValidator", "VasprunXMLValidator"}

\* The tables built from the mapping as it was loaded, before lines 38-43
BuildHandlersDictUnsubstituted(cfg) ==
    [n \in HandlerNames |->
        IF n = "VaspErrorHandler" THEN Obj(n, Lookup(loaded, "vtst_swaps"))
        ELSE Obj(n, None)]

\* Lines 47-60: every handler is constructed here, VaspErrorHandler from
\* the value config["vtst_swaps"] holds at this point.
BuildHandlersDict(cfg) ==
    [n \in HandlerNames |->
        IF n = "VaspErrorHandler" THEN Obj(n, Lookup(cfg, "vtst_swaps"))
        ELSE Obj(n, None)]

\* Lines 61-64
BuildValidatorsDict == [n \in ValidatorNames |-> Obj(n, None)]

\* The selection loop with an unknown flag skipped instead of raised
RECURSIVE SelectFromSkipping(_, _, _, _, _)
SelectFromSkipping(flags, table, i, acc, what) ==
    IF i > Len(flags) THEN [list |-> acc, err |-> NoError]
    ELSE IF flags[i] \notin DOMAIN table
         THEN SelectFromSkipping(flags, table, i + 1, acc, what)
    ELSE SelectFromSkipping(flags, table, i + 1,
                            Append(acc, table[flags[i]]), what)

\* Lines 66-70 and 72-76 from flag i on: the list built, or the ValueError
\* for the first flag that is no key of the table.
RECURSIVE SelectFrom(_, _, _, _, _)
SelectFrom(flags, table, i, acc, what) ==
    IF i > Len(flags) THEN [list |-> acc, err |-> NoError]
    ELSE IF flags[i] \notin DOMAIN table
         THEN [list |-> acc, err |-> Error("ValueError", <<what, flags[i]>>)]
    ELSE SelectFrom(flags, table, i + 1, Append(acc, table[flags[i]]), what)

SelectHandlersFrom(flags, table) ==
    SelectFrom(flags, table, 1, <<>>, "Unknown VASP error handler: ")

SelectValidatorsFrom(flags, table) ==
    SelectFrom(flags, table, 1, <<>>, "Unknown VASP validator: ")

\* os.path.expandvars: $X is replaced where X is set, and left where not
RECURSIVE ExpandVars(_, _)
ExpandVars(s, env) ==
    IF s = <<>> THEN <<>>
    ELSE IF Head(s) = "$" /\ Len(s) >= 2 /\ <<s[2]>> \in DOMAIN env
         THEN env[<<s[2]>>] \o ExpandVars(SubSeq(s, 3, Len(s)), env)
    ELSE <<Head(s)>> \o ExpandVars(Tail(s), env)

\* shlex.split of a string without quotes: the words between blanks
RECURSIVE SplitFrom(_, _, _)
SplitFrom(s, cur, acc) ==
    IF s = <<>> THEN (IF cur = <<>> THEN acc ELSE Append(acc, cur))
    ELSE IF Head(s) = " "
         THEN SplitFrom(Tail(s), <<>>,
                        IF cur = <<>> THEN acc ELSE Append(acc, cur))
    ELSE SplitFrom(Tail(s), Append(cur, Head(s)), acc)

Split(s) == SplitFrom(s, <<>>, <<>>)

-----------------------------------------------------------------------------
(* run_vasp_custodian.py: the inputs of a run *)

MaxHandlers == 2        \* longest `handlers` list of a settings file
MaxReturnCode == 1      \* subprocess.call returns 0..MaxReturnCode
DefaultMaxErrors == 5   \* config.get("max_errors", 5)

Paths == {<<"p1">>, <<"p2">>}

\* names a settings file may list: known handlers, a validator, a typo
HandlerFlags == {"VaspErrorHandler", "StdErrHandler", "WalltimeHandler",
                 "VspErrorHandler"}
\* the lists of at most MaxHandlers flags that name no flag twice
HandlerLists ==
    {l \in UNION {[1..n -> HandlerFlags] : n \in 0..MaxHandlers} :
        \A i, j \in 1..Len(l) : l[i] = l[j] => i = j}
ValidatorLists == {<<>>, <<"VaspFilesValidator", "VasprunXMLValidator">>,
                   <<"VasprunXMLValidator", "StdErrHandler">>}

Entry(k, v) == IF v = Absent THEN <<>> ELSE << <<k, v>> >>

\* A settings mapping in the order of its file: the two command entries
\* come in either order.
Settings(cmdFirst, par, cmd, vtst, hs, vs, en, kw, wt, me) ==
    (IF cmdFirst
     THEN Entry("vasp_cmd", cmd) \o Entry("vasp_parallel_cmd", par)
     ELSE Entry("vasp_parallel_cmd", par) \o Entry("vasp_cmd", cmd))
    \o Entry("vtst_swaps", vtst)
    \o Entry("handlers", VList(hs))
    \o Entry("validators", VList(vs))
    \o Entry("custodian_enabled", en)
    \o Entry("vasp_job_kwargs", kw)
    \o Entry("custodian_wall_time", wt)
    \o Entry("max_errors", me)

ParallelCmds == {Absent, VStr(<<>>), VStr(<<"$", "A">>)}
VaspCmds == {Absent, VStr(<<"$", "B">>), VStr(<<"vasp_ncl">>)}
VtstSwaps == {VBool(FALSE), VStr(<<"$", "A">>)}
JobKwargs == {Absent, None, VDict("backup" :> VBool(FALSE)),
              VDict("auto_npar" :> VBool(TRUE))}
Limits == {<<Absent, Absent>>, <<VInt(10), Absent>>, <<Absent, VInt(3)>>}

SettingsFiles ==
    {Settings(o, par, cmd, vtst, hs, vs, en, kw, lim[1], lim[2]) :
        o \in BOOLEAN, par \in ParallelCmds, cmd \in VaspCmds,
        vtst \in VtstSwaps, hs \in HandlerLists, vs \in ValidatorLists,
        en \in {Absent, VBool(FALSE)}, kw \in JobKwargs, lim \in Limits}

\* The settings of the file at the second path
OtherSettings ==
    Settings(FALSE, Absent, Absent, VBool(TRUE), <<"StdErrHandler">>, <<>>,
             Absent, EmptyDict, Absent, Absent)

EnvValue(n) ==
    CASE n = <<"A">> -> <<"srun">>
      [] n = <<"B">> -> <<"vasp_gam">>
      [] OTHER -> <<"p1">>

Environs ==
    {[n \in D |-> IF n = SETTINGS_VAR THEN p ELSE EnvValue(n)] :
        D \in SUBSET {SETTINGS_VAR, <<"A">>, <<"B">>}, p \in Paths}

ScriptIdle ==
    /\ settings_path = Unbound
    /\ config = Unbound
    /\ loaded = Unbound
    /\ opened = <<>>
    /\ handlers_dict = Unbound
    /\ validators_dict = Unbound
    /\ handlers = <<>>
    /\ validators = <<>>
    /\ custodian_enabled = Unbound
    /\ vasp_cmd = Unbound
    /\ vasp_gamma_cmd = Unbound
    /\ max_errors = Unbound
    /\ wall_time = Unbound
    /\ scratch_dir = Unbound
    /\ vasp_job_kwargs = Unbound
    /\ custodian_kwargs = Unbound
    /\ split_vasp_cmd = Unbound
    /\ jobs = <<>>
    /\ c = Unbound
    /\ runs = 0
    /\ calls = <<>>
    /\ return_code = Unbound
    /\ log = <<>>
    /\ err = NoError
    /\ events = <<>>

\* The file at the first path varies over SettingsFiles in the runs that
\* read it.
ScriptInit ==
    /\ pc = "start"
    /\ environ \in Environs
    /\ \E f \in SettingsFiles \cup {OtherSettings} :
         /\ (SETTINGS_VAR \in DOMAIN environ /\ environ[SETTINGS_VAR] = <<"p1">>)
              \/ f = OtherSettings
         /\ files = (<<"p1">> :> f) @@ (<<"p2">> :> OtherSettings)
    /\ ScriptIdle

-----------------------------------------------------------------------------
(* run_vasp_custodian.py: the steps of the script *)

Raise(e) ==
    /\ pc' = "failed"
    /\ err' = e

Step(next, event) ==
    /\ pc' = next
    /\ events' = Append(events, event)
    /\ err' = err

\* Lines 31-34 with a default path taken when the variable is not set
ReadSettingsPathWithDefault ==
    /\ pc = "start"
    /\ settings_path' = IF SETTINGS_VAR \in DOMAIN environ
                        THEN environ[SETTINGS_VAR] ELSE <<"p2">>
    /\ Step("load", "settings_path")
    /\ UNCHANGED <<wfVars, maceVars, environ, files, config, loaded, opened, handlers_dict,
                   validators_dict, handlers, validators, custodian_enabled,
                   vasp_cmd, vasp_gamma_cmd, max_errors, wall_time,
                   scratch_dir, vasp_job_kwargs, custodian_kwargs,
                   split_vasp_cmd, jobs, c, runs, calls, return_code, log>>

\* Lines 31-34
ReadSettingsPath ==
    /\ pc = "start"
    /\ IF SETTINGS_VAR \in DOMAIN environ
       THEN /\ settings_path' = environ[SETTINGS_VAR]
            /\ Step("load", "settings_path")
       ELSE /\ Raise(Error("EnvironmentError",
                    <<"Missing environment variable VASP_CUSTODIAN_SETTINGS.">>))
            /\ UNCHANGED <<settings_path, events>>
    /\ UNCHANGED <<wfVars, maceVars, environ, files, config, loaded, opened, handlers_dict,
                   validators_dict, handlers, validators, custodian_enabled,
                   vasp_cmd, vasp_gamma_cmd, max_errors, wall_time,
                   scratch_dir, vasp_job_kwargs, custodian_kwargs,
                   split_vasp_cmd, jobs, c, runs, calls, return_code, log>>

\* Line 35
LoadSettings ==
    /\ pc = "load"
    /\ opened' = Append(opened, settings_path)
    /\ config' = files[settings_path]
    /\ loaded' = files[settings_path]
    /\ Step("substitute", "load")
    /\ UNCHANGED <<wfVars, maceVars, environ, files, settings_path, handlers_dict,
                   validators_dict, handlers, validators, custodian_enabled,
                   vasp_cmd, vasp_gamma_cmd, max_errors, wall_time,
                   scratch_dir, vasp_job_kwargs, custodian_kwargs,
                   split_vasp_cmd, jobs, c, runs, calls, return_code, log>>

\* Lines 38-43
SubstituteEnv ==
    /\ pc = "substitute"
    /\ LET r == Substitute(config, environ) IN
        /\ config' = r.config
        /\ IF r.err = NoError
           THEN Step("handlers_dict", "substitute")
           ELSE Raise(r.err) /\ UNCHANGED events
    /\ UNCHANGED <<wfVars, maceVars, environ, files, settings_path, loaded, opened,
                   handlers_dict, validators_dict, handlers, validators,
                   custodian_enabled, vasp_cmd, vasp_gamma_cmd, max_errors,
                   wall_time, scratch_dir, vasp_job_kwargs, custodian_kwargs,
                   split_vasp_cmd, jobs, c, runs, calls, return_code, log>>

\* Lines 46-64
BuildTables ==
    /\ pc = "handlers_dict"
    /\ IF Has(config, "vtst_swaps")
       THEN /\ handlers_dict' = BuildHandlersDict(config)
            /\ validators_dict' = BuildValidatorsDict
            /\ Step("handlers", "handlers_dict")
       ELSE /\ Raise(Error("KeyError", <<"vtst_swaps">>))
            /\ UNCHANGED <<handlers_dict, validators_dict, events>>
    /\ UNCHANGED <<wfVars, maceVars, environ, files, settings_path, config, loaded, opened,
                   handlers, validators, custodian_enabled, vasp_cmd,
                   vasp_gamma_cmd, max_errors, wall_time, scratch_dir,
                   vasp_job_kwargs, custodian_kwargs, split_vasp_cmd, jobs, c,
                   runs, calls, return_code, log>>

\* Lines 66-70
SelectHandlers ==
    /\ pc = "handlers"
    /\ IF ~Has(config, "handlers")
       THEN /\ Raise(Error("KeyError", <<"handlers">>))
            /\ UNCHANGED <<handlers, events>>
       ELSE LET r == SelectHandlersFrom(Lookup(config, "handlers").l,
                                        handlers_dict) IN
            /\ handlers' = r.list
            /\ IF r.err = NoError
               THEN Step("validators", "handlers")
               ELSE Raise(r.err) /\ UNCHANGED events
    /\ UNCHANGED <<wfVars, maceVars, environ, files, settings_path, config, loaded, opened,
                   handlers_dict, validators_dict, validators,
                   custodian_enabled, vasp_cmd, vasp_gamma_cmd, max_errors,
                   wall_time, scratch_dir, vasp_job_kwargs, custodian_kwargs,
                   split_vasp_cmd, jobs, c, runs, calls, return_code, log>>

\* Lines 72-76
SelectValidators ==
    /\ pc = "validators"
    /\ IF ~Has(config, "validators")
       THEN /\ Raise(Error("KeyError", <<"validators">>))
            /\ UNCHANGED <<validators, events>>
       ELSE LET r == SelectValidatorsFrom(Lookup(config, "validators").l,
                                          validators_dict) IN
            /\ validators' = r.list
            /\ IF r.err = NoError
               THEN Step("populate", "validators")
               ELSE Raise(r.err) /\ UNCHANGED events
    /\ UNCHANGED <<wfVars, maceVars, environ, files, settings_path, config, loaded, opened,
                   handlers_dict, validators_dict, handlers,
                   custodian_enabled, vasp_cmd, vasp_gamma_cmd, max_errors,
                   wall_time, scratch_dir, vasp_job_kwargs, custodian_kwargs,
                   split_vasp_cmd, jobs, c, runs, calls, return_code, log>>

\* Lines 79-88.  Line 88 stores into what config.get("vasp_job_kwargs", None)
\* returned, before the None test of line 91: on None it raises TypeError.
StrOrError(v) == v.t = "str"

PopulateSettings ==
    /\ pc = "populate"
    /\ LET par == Get(config, "vasp_parallel_cmd", VStr(<<>>))
           cmd == Get(config, "vasp_cmd", VStr(<<"vasp_std">>))
           gam == Get(config, "vasp_gamma_cmd", VStr(<<"vasp_gam">>))
           kw == Get(config, "vasp_job_kwargs", None)
       IN
       /\ custodian_enabled' = Get(config, "custodian_enabled", VBool(TRUE))
       /\ IF ~(StrOrError(par) /\ StrOrError(cmd) /\ StrOrError(gam))
          THEN /\ Raise(Error("TypeError", <<"unsupported operand type(s) for +">>))
               /\ UNCHANGED <<vasp_cmd, vasp_gamma_cmd, max_errors, wall_time,
                              scratch_dir, vasp_job_kwargs, custodian_kwargs,
                              events>>
          ELSE /\ vasp_cmd' = VStr(par.s \o <<" ">> \o cmd.s)
               /\ vasp_gamma_cmd' = VStr(par.s \o <<" ">> \o gam.s)
               /\ max_errors' = Get(config, "max_errors", VInt(DefaultMaxErrors))
               /\ wall_time' = Get(config, "custodian_wall_time", None)
               /\ scratch_dir' = Get(config, "scratch_dir", None)
               /\ custodian_kwargs' = Get(config, "custodian_kwargs", None)
               /\ IF kw.t = "dict"
                  THEN /\ vasp_job_kwargs' = DictSet(kw, "auto_npar", VBool(FALSE))
                       /\ Step("prepare", "populate")
                  ELSE /\ vasp_job_kwargs' = kw
                       /\ Raise(Error("TypeError",
                            <<"object does not support item assignment">>))
                       /\ UNCHANGED events
    /\ UNCHANGED <<wfVars, maceVars, environ, files, settings_path, config, loaded, opened,
                   handlers_dict, validators_dict, handlers, validators,
                   split_vasp_cmd, jobs, c, runs, calls, return_code, log>>

OrEmpty(v) == IF v = None THEN EmptyDict ELSE v

\* Lines 91-101
PrepareCommands ==
    /\ pc = "prepare"
    /\ LET kw == OrEmpty(vasp_job_kwargs)
           cmd == ExpandVars(vasp_cmd.s, environ)
           gam == ExpandVars(vasp_gamma_cmd.s, environ)
           kw1 == IF "auto_npar" \notin DOMAIN kw.d
                  THEN DictSet(kw, "auto_npar", VBool(FALSE))
                  ELSE kw
       IN
       /\ custodian_kwargs' = OrEmpty(custodian_kwargs)
       /\ vasp_cmd' = VStr(cmd)
       /\ vasp_gamma_cmd' = VStr(gam)
       /\ split_vasp_cmd' = Split(cmd)
       /\ vasp_job_kwargs' = DictSet(kw1, "gamma_vasp_cmd", VList(Split(gam)))
    /\ Step("branch", "prepare")
    /\ UNCHANGED <<wfVars, maceVars, environ, files, settings_path, config, loaded, opened,
                   handlers_dict, validators_dict, handlers, validators,
                   custodian_enabled, max_errors, wall_time, scratch_dir,
                   jobs, c, runs, calls, return_code, log>>

\* Line 106
ConstructJob ==
    /\ pc = "branch"
    /\ Truthy(custodian_enabled)
    /\ jobs' = Append(jobs, [vasp_cmd |-> split_vasp_cmd,
                             kwargs |-> vasp_job_kwargs.d])
    /\ Step("custodian", "VaspJob")
    /\ UNCHANGED <<wfVars, maceVars, environ, files, settings_path, config, loaded, opened,
                   handlers_dict, validators_dict, handlers, validators,
                   custodian_enabled, vasp_cmd, vasp_gamma_cmd, max_errors,
                   wall_time, scratch_dir, vasp_job_kwargs, custodian_kwargs,
                   split_vasp_cmd, c, runs, calls, return_code, log>>

\* Lines 108-109 with the wall-time handler put before the selected ones
WithWalltimeFirst(hs, wt) ==
    IF wt # None THEN <<Obj("WalltimeHandler", wt)>> \o hs ELSE hs

\* Lines 108-109
WithWalltime(hs, wt) ==
    IF wt # None THEN hs \o <<Obj("WalltimeHandler", wt)>> ELSE hs

\* Lines 108-118
ConstructCustodian ==
    /\ pc = "custodian"
    /\ handlers' = WithWalltime(handlers, wall_time)
    /\ c' = [handlers |-> handlers', jobs |-> jobs, validators |-> validators,
             max_errors |-> max_errors, scratch_dir |-> scratch_dir,
             kwargs |-> custodian_kwargs.d]
    /\ Step("c.run", "Custodian")
    /\ UNCHANGED <<wfVars, maceVars, environ, files, settings_path, config, loaded, opened,
                   handlers_dict, validators_dict, validators,
                   custodian_enabled, vasp_cmd, vasp_gamma_cmd, max_errors,
                   wall_time, scratch_dir, vasp_job_kwargs, custodian_kwargs,
                   split_vasp_cmd, jobs, runs, calls, return_code, log>>

\* Lines 120-121.  Custodian.run() is the library's loop: it returns, or
\* raises when the library gives up on the job.
RunCustodian ==
    /\ pc = "c.run"
    /\ log' = Append(log, [text |-> "Running VASP using custodian.",
                           cmd |-> <<>>, code |-> None])
    /\ runs' = runs + 1
    /\ events' = Append(events, "Custodian.run")
    /\ \/ pc' = "done" /\ err' = err
       \/ Raise(Error("CustodianError", <<"Custodian.run">>))
    /\ UNCHANGED <<wfVars, maceVars, environ, files, settings_path, config, loaded, opened,
                   handlers_dict, validators_dict, handlers, validators,
                   custodian_enabled, vasp_cmd, vasp_gamma_cmd, max_errors,
                   wall_time, scratch_dir, vasp_job_kwargs, custodian_kwargs,
                   split_vasp_cmd, jobs, c, calls, return_code>>

\* Lines 126-127: the command is run once and its return code kept
RunVasp ==
    /\ pc = "branch"
    /\ ~Truthy(custodian_enabled)
    /\ log' = Append(log, [text |-> "Running command: ", cmd |-> vasp_cmd.s,
                           code |-> None])
    /\ calls' = Append(calls, vasp_cmd.s)
    /\ \E rc \in 0..MaxReturnCode : return_code' = VInt(rc)
    /\ Step("returned", "subprocess.call")
    /\ UNCHANGED <<wfVars, maceVars, environ, files, settings_path, config, loaded, opened,
                   handlers_dict, validators_dict, handlers, validators,
                   custodian_enabled, vasp_cmd, vasp_gamma_cmd, max_errors,
                   wall_time, scratch_dir, vasp_job_kwargs, custodian_kwargs,
                   split_vasp_cmd, jobs, c, runs>>

\* Line 128 as subprocess.check_call would behave: a non-zero code raises
LogReturnCodeChecked ==
    /\ pc = "returned"
    /\ log' = Append(log, [text |-> " finished running with returncode: ",
                           cmd |-> vasp_cmd.s, code |-> return_code])
    /\ IF return_code.n = 0
       THEN Step("done", "log")
       ELSE Raise(Error("CalledProcessError", <<"non-zero exit status">>))
            /\ UNCHANGED events
    /\ UNCHANGED <<wfVars, maceVars, environ, files, settings_path, config, loaded, opened,
                   handlers_dict, validators_dict, handlers, validators,
                   custodian_enabled, vasp_cmd, vasp_gamma_cmd, max_errors,
                   wall_time, scratch_dir, vasp_job_kwargs, custodian_kwargs,
                   split_vasp_cmd, jobs, c, runs, calls, return_code>>

\* Line 128
LogReturnCode ==
    /\ pc = "returned"
    /\ log' = Append(log, [text |-> " finished running with returncode: ",
                           cmd |-> vasp_cmd.s, code |-> return_code])
    /\ Step("done", "log")
    /\ UNCHANGED <<wfVars, maceVars, environ, files, settings_path, config, loaded, opened,
                   handlers_dict, validators_dict, handlers, validators,
                   custodian_enabled, vasp_cmd, vasp_gamma_cmd, max_errors,
                   wall_time, scratch_dir, vasp_job_kwargs, custodian_kwargs,
                   split_vasp_cmd, jobs, c, runs, calls, return_code>>

-----------------------------------------------------------------------------
(* The workflows of tests/dask/test_dask_tutorials.py and                   *)
(* tests/parsl/test_parsl_tutorials.py.  The functions and the workflow     *)
(* bodies are the tests'; @job and @subflow are quacc's decorators, which   *)
(* make of a call a task that the engine runs once its arguments are        *)
(* resolved.  Both engines run the same workflow on the same arguments,     *)
(* side by side.                                                            *)

MaxArg == 3             \* the arguments a, b, c range over 1..MaxArg
Copies == 3             \* make_more: [val] * 3

Engines == {"dask", "parsl"}

\* An argument of a call: a plain value, or the handle of an earlier call
Lit(v) == [ref |-> FALSE, id |-> 0, val |-> v]
Ref(i) == [ref |-> TRUE, id |-> i, val |-> None]

CallOf(fn, args) == [fn |-> fn, args |-> args]

\* def add(a, b): return a + b
add(a, b) == VInt(a.n + b.n)

\* mult written as a sum
mult_adds(a, b) == VInt(a.n + b.n)

\* def mult(a, b): return a * b
mult(a, b) == VInt(a.n * b.n)

\* make_more with one copy too few
make_more_short(val) == VList([i \in 1..(Copies - 1) |-> val])

\* def make_more(val): return [val] * 3
make_more(val) == VList([i \in 1..Copies |-> val])

\* def add_distributed(vals, c): return [add(val, c) for val in vals]
add_distributed(vals, cc) ==
    [i \in 1..Len(vals.l) |-> CallOf("add", <<Lit(vals.l[i]), Lit(cc)>>)]

\* relax_job of quacc.recipes.emt.core: a summary holding the relaxed atoms
relax_job(a) == VDict("atoms" :> VStr(<<"relaxed">> \o a.s))

\* workflow(a, b, c) of test_comparison1, and the body of test_comparison3
ChainWorkflow(a, b, cc) ==
    <<CallOf("add", <<Lit(a), Lit(b)>>),
      CallOf("mult", <<Ref(1), Lit(cc)>>)>>

\* the body of test_comparison2 (and test_comparison4)
FanoutWorkflow(a, b, cc) ==
    <<CallOf("add", <<Lit(a), Lit(b)>>),
      CallOf("make_more", <<Ref(1)>>),
      CallOf("add_distributed", <<Ref(2), Lit(cc)>>)>>

\* test_tutorial2b with the first structure relaxed twice
PairWorkflowSameAtoms(atoms1, atoms2) ==
    <<CallOf("relax_job", <<Lit(atoms1)>>),
      CallOf("relax_job", <<Lit(atoms1)>>)>>

\* workflow(atoms1, atoms2) of test_tutorial2b
PairWorkflow(atoms1, atoms2) ==
    <<CallOf("relax_job", <<Lit(atoms1)>>),
      CallOf("relax_job", <<Lit(atoms2)>>)>>

Cu == VStr(<<"Cu">>)
N2 == VStr(<<"N2">>)

Program ==
    CASE workflow = "chain" -> ChainWorkflow(inputs[1], inputs[2], inputs[3])
      [] workflow = "fanout" -> FanoutWorkflow(inputs[1], inputs[2], inputs[3])
      [] workflow = "pair" -> PairWorkflow(inputs[1], inputs[2])
      [] OTHER -> <<>>

\* The handles the workflow returns: one, or the two of test_tutorial2b
Returned == IF workflow = "pair" THEN <<1, 2>> ELSE <<Len(Program)>>

NewTask(call) ==
    [fn |-> call.fn, args |-> call.args, state |-> "pending",
     got |-> <<>>, value |-> None, children |-> <<>>]

\* a job's function applied to its resolved arguments
Apply(fn, got) ==
    CASE fn = "add" -> add(got[1], got[2])
      [] fn = "mult" -> mult(got[1], got[2])
      [] fn = "make_more" -> make_more(got[1])
      [] fn = "relax_job" -> relax_job(got[1])
      [] OTHER -> None

Ready(ts, t) ==
    \A k \in 1..Len(t.args) : t.args[k].ref => ts[t.args[k].id].state = "done"

Resolve(ts, t) ==
    [k \in 1..Len(t.args) |->
        IF t.args[k].ref THEN ts[t.args[k].id].value ELSE t.args[k].val]

WfInputs ==
    {<<VInt(a), VInt(b), VInt(cc)>> : a, b, cc \in 1..MaxArg}

WfIdle ==
    /\ workflow = "none"
    /\ inputs = <<>>
    /\ tasks = [e \in Engines |-> <<>>]
    /\ submitted = [e \in Engines |-> FALSE]
    /\ called = [e \in Engines |-> 0]
    /\ result = [e \in Engines |-> Unbound]

\* Parsl starts an app as soon as it is called and its arguments are
\* resolved; Dask builds the graph and runs nothing before compute.
WfInit ==
    /\ \/ workflow \in {"chain", "fanout"} /\ inputs \in WfInputs
       \/ workflow = "pair" /\ inputs = <<Cu, N2>>
    /\ tasks = [e \in Engines |-> <<>>]
    /\ submitted = [e \in Engines |-> e = "parsl"]
    /\ called = [e \in Engines |-> 0]
    /\ result = [e \in Engines |-> Unbound]

\* The test makes its next decorated call: a handle comes back at once
Call(e) ==
    /\ called[e] < Len(Program)
    /\ called' = [called EXCEPT ![e] = @ + 1]
    /\ tasks' = [tasks EXCEPT ![e] = Append(@, NewTask(Program[called[e] + 1]))]
    /\ UNCHANGED <<scriptVars, maceVars, workflow, inputs, submitted, result>>

\* client.compute(...) / dask.compute(...): the graph is given to Dask
Compute(e) ==
    /\ ~submitted[e]
    /\ called[e] = Len(Program)
    /\ submitted' = [submitted EXCEPT ![e] = TRUE]
    /\ UNCHANGED <<scriptVars, maceVars, workflow, inputs, tasks, called, result>>

\* The engine starts a task whose arguments are all resolved
Start(e, i) ==
    /\ submitted[e]
    /\ tasks[e][i].state = "pending"
    /\ Ready(tasks[e], tasks[e][i])
    /\ tasks' = [tasks EXCEPT ![e][i].state = "running",
                              ![e][i].got = Resolve(tasks[e], tasks[e][i])]
    /\ UNCHANGED <<scriptVars, maceVars, workflow, inputs, submitted, called, result>>

\* A @job function returns: its handle is resolved
Finish(e, i) ==
    /\ tasks[e][i].state = "running"
    /\ tasks[e][i].fn # "add_distributed"
    /\ tasks' = [tasks EXCEPT ![e][i].state = "done",
                              ![e][i].value = Apply(tasks[e][i].fn, tasks[e][i].got)]
    /\ UNCHANGED <<scriptVars, maceVars, workflow, inputs, submitted, called, result>>

\* The @subflow body returns: one inner job per call it made
Spawn(e, i) ==
    /\ tasks[e][i].state = "running"
    /\ tasks[e][i].fn = "add_distributed"
    /\ LET inner == add_distributed(tasks[e][i].got[1], tasks[e][i].got[2])
           n == Len(tasks[e])
       IN tasks' = [tasks EXCEPT
                      ![e] = [@ EXCEPT ![i].state = "joining",
                                       ![i].children = [k \in 1..Len(inner) |-> n + k]]
                             \o [k \in 1..Len(inner) |-> NewTask(inner[k])]]
    /\ UNCHANGED <<scriptVars, maceVars, workflow, inputs, submitted, called, result>>

\* The subflow's handle is resolved once every inner job is: to their
\* results, in the order the body returned them
Join(e, i) ==
    /\ tasks[e][i].state = "joining"
    /\ \A k \in 1..Len(tasks[e][i].children) :
          tasks[e][tasks[e][i].children[k]].state = "done"
    /\ tasks' = [tasks EXCEPT
                   ![e][i].state = "done",
                   ![e][i].value =
                      VList([k \in 1..Len(tasks[e][i].children) |->
                                tasks[e][tasks[e][i].children[k]].value])]
    /\ UNCHANGED <<scriptVars, maceVars, workflow, inputs, submitted, called, result>>

\* test_comparison2's fetch with an index too many: [0] of the computed
\* tuple
DaskFetchedFirst(w, hv) ==
    CASE w = "fanout" -> hv[1].l[1]
      [] w = "pair" -> VList(hv)
      [] OTHER -> hv[1]

\* What the Dask tests fetch from the values hv of the returned handles:
\* client.compute(...).result(), dask.compute(*client.gather(delayed3)) (a
\* tuple), client.gather(client.compute([result1, result2])) (a list)
DaskFetched(w, hv) ==
    CASE w = "fanout" -> VTuple(hv[1].l)
      [] w = "pair" -> VList(hv)
      [] OTHER -> hv[1]

\* What the Parsl tests fetch: future.result(), and of test_tutorial2b
\* futures["result1"].result() and futures["result2"].result()
ParslFetched(w, hv) ==
    CASE w = "pair" -> VDict(("result1" :> hv[1]) @@ ("result2" :> hv[2]))
      [] OTHER -> hv[1]

\* The test fetches the result once every returned handle is resolved
Fetch(e) ==
    /\ result[e] = Unbound
    /\ called[e] = Len(Program)
    /\ \A k \in 1..Len(Returned) : tasks[e][Returned[k]].state = "done"
    /\ LET hv == [k \in 1..Len(Returned) |-> tasks[e][Returned[k]].value]
       IN result' = [result EXCEPT ![e] =
                        IF e = "dask" THEN DaskFetched(workflow, hv)
                                      ELSE ParslFetched(workflow, hv)]
    /\ UNCHANGED <<scriptVars, maceVars, workflow, inputs, tasks, submitted, called>>

-----------------------------------------------------------------------------
(* src/quacc/recipes/mace/core.py.  Runner, the summarizers and            *)
(* recursive_dict_merge are quacc's, modelled by what the recipes use of    *)
(* them.  An Atoms object is its sequence of positions (one coordinate per  *)
(* atom) and the calculator attached to it.                                 *)

MaxAtoms == 2           \* atoms of an input structure: 1..MaxAtoms
MaxCoord == 1           \* coordinates range over 0..MaxCoord
MaxMove == 1            \* an optimizer moves each atom by 0..MaxMove

MACE_REQUIRED == "MACE must be installed. Refer to the quacc documentation."

\* the three recipes decorated with @requires(has_mace, ...)
Guarded == {"static_job", "relax_job", "freq_job"}

Recipes == Guarded \cup {"_add_stdev_and_hess"}

AtomsOf(positions, calculator) == [positions |-> positions, calc |-> calculator]

AtomsInputs ==
    {AtomsOf(p, None) : p \in UNION {[1..n -> 0..MaxCoord] : n \in 1..MaxAtoms}}

\* quacc.Remove: as the value of a keyword it removes the key (lines 59-60)
Remove == "quacc.Remove"

CalcKwargs == {<<>>, "device" :> "cpu", "hess_method" :> "fd",
               "hess_method" :> Remove, "default_dtype" :> "float32"}
OptParams == {None, VDict("optimizer" :> "BFGS"), VDict("fmax" :> "0.05"),
              VDict("optimizer" :> Remove)}

\* recursive_dict_merge(defaults, custom) on flat dicts: custom wins, and
\* the keys whose value is Remove are then taken out
recursive_dict_merge(defaults, custom) ==
    LET merged == custom @@ defaults IN
    [k \in {x \in DOMAIN merged : merged[x] # Remove} |-> merged[k]]

\* calc_flags with the recipe's defaults taken over the caller's keywords
calc_flags_defaults_win(r, kwargs) ==
    recursive_dict_merge(kwargs,
                         IF r = "freq_job" THEN "hess_method" :> "autograd"
                                           ELSE <<>>)

\* Lines 70-74, 117-123, 165-170, 220-224: calc_flags of each recipe
calc_flags(r, kwargs) ==
    recursive_dict_merge(IF r = "freq_job" THEN "hess_method" :> "autograd"
                                           ELSE <<>>,
                         kwargs)

\* Lines 121 and 124: opt_flags of relax_job
opt_flags(sella, params) ==
    recursive_dict_merge(IF sella THEN "optimizer" :> "Sella" ELSE <<>>,
                         IF params = None THEN <<>> ELSE params.d)

\* Lines 76, 126, 172, 226: the keyword the recipe itself writes in its
\* mace_off call
dtype_keyword(r) == IF r = "freq_job" THEN "default_dtypes" ELSE "default_dtype"

\* Lines 76, 126, 172, 226: the keyword arguments mace_off is called with
mace_off_kwargs(r, flags) == (dtype_keyword(r) :> "float64") @@ flags

\* Runner(atoms, calc): works on a copy of the atoms with calc attached
Runner(a, calculator) == AtomsOf(a.positions, calculator)

\* Runner.run_calc: energy and forces at the positions given
run_calc(runner) == runner

\* Runner.run_opt(**flags): the optimizer moves the atoms, each by d; what
\* is returned is the optimizer, which holds the atoms and the keywords it
\* was made with
run_opt(runner, flags, d) ==
    [positions |-> [i \in 1..Len(runner.positions) |-> runner.positions[i] + d],
     calc |-> runner.calc,
     opt_flags |-> flags]

\* static_job run as a relaxation
static_job_runs_opt(a, calculator, d) ==
    run_opt(Runner(a, calculator), <<>>, d)

\* Line 77: static_job's final_atoms
static_job_run(a, calculator, d) == run_calc(Runner(a, calculator))

\* Line 127: relax_job's dyn
relax_job_run(a, calculator, flags, d) == run_opt(Runner(a, calculator), flags, d)

\* Line 173: freq_job's final_atoms
freq_job_run(a, calculator, d) == run_calc(Runner(a, calculator))

\* Line 227: calc.get_hessian(atoms) on the one structure of the
\* summary's trajectory; the structure is not moved
add_stdev_and_hess_run(a, calculator, d) == AtomsOf(a.positions, calculator)

\* summarize_run / summarize_opt_run: the fields the tests read
summarize(final, name) ==
    [atoms |-> final, natoms |-> Len(final.positions), name |-> name]

\* the name of the summary returned; _add_stdev_and_hess returns the
\* summary it was given, which relax_job made
RecipeName(r) ==
    CASE r = "static_job" -> "mace_off Static"
      [] r = "relax_job" -> "mace_off Relax"
      [] r = "_add_stdev_and_hess" -> "mace_off Relax"
      [] OTHER -> "ASE Vibrations and Thermo Analysis"

MaceIdle ==
    /\ has_mace = FALSE
    /\ has_sella = FALSE
    /\ recipe = "none"
    /\ atoms = Unbound
    /\ atoms0 = Unbound
    /\ calc_kwargs = <<>>
    /\ opt_params = None
    /\ mpc = "idle"
    /\ calc = Unbound
    /\ final_atoms = Unbound
    /\ output = Unbound
    /\ merr = NoError

MaceInit ==
    /\ has_mace \in BOOLEAN
    /\ has_sella \in BOOLEAN
    /\ recipe \in Recipes
    /\ atoms \in AtomsInputs
    /\ atoms0 = atoms
    /\ calc_kwargs \in CalcKwargs
    /\ opt_params \in OptParams
    /\ mpc = "call"
    /\ calc = Unbound
    /\ final_atoms = Unbound
    /\ output = Unbound
    /\ merr = NoError

\* The call with the guard of the decorated recipes left out
CheckRequiresNever ==
    /\ mpc = "call"
    /\ mpc' = "body" /\ merr' = merr
    /\ UNCHANGED <<scriptVars, wfVars, has_mace, has_sella, recipe, atoms,
                   atoms0, calc_kwargs, opt_params, calc, final_atoms, output>>

\* Lines 42-44, 85-87, 132-134: @requires(has_mace, ...) raises
\* RuntimeError(message) when has_mace is false.  _add_stdev_and_hess
\* (line 195) is not decorated.
CheckRequires ==
    /\ mpc = "call"
    /\ IF recipe \in Guarded => has_mace
       THEN mpc' = "body" /\ merr' = merr
       ELSE mpc' = "raised" /\ merr' = Error("RuntimeError", <<MACE_REQUIRED>>)
    /\ UNCHANGED <<scriptVars, wfVars, has_mace, has_sella, recipe, atoms,
                   atoms0, calc_kwargs, opt_params, calc, final_atoms, output>>

\* Lines 69-76, 116-126, 164-172, 219-226.  mace_off is imported only when
\* has_mace (lines 23-24): without it the name is not defined.  A keyword
\* written in the call and given again in **calc_flags is a TypeError.
BuildCalculator ==
    /\ mpc = "body"
    /\ LET flags == calc_flags(recipe, calc_kwargs) IN
       IF ~has_mace
       THEN /\ merr' = Error("NameError", <<"name 'mace_off' is not defined">>)
            /\ mpc' = "raised"
            /\ calc' = calc
       ELSE IF dtype_keyword(recipe) \in DOMAIN flags
       THEN /\ merr' = Error("TypeError",
                       <<"got multiple values for keyword argument">>)
            /\ mpc' = "raised"
            /\ calc' = calc
       ELSE /\ calc' = mace_off_kwargs(recipe, flags)
            /\ mpc' = "run"
            /\ merr' = merr
    /\ UNCHANGED <<scriptVars, wfVars, has_mace, has_sella, recipe, atoms,
                   atoms0, calc_kwargs, opt_params, final_atoms, output>>

\* Lines 77, 127, 173, 227.  The runner works on its own copy: the caller's
\* object stays as it is.
RunCalculation ==
    /\ mpc = "run"
    /\ \E d \in 0..MaxMove :
          final_atoms' =
             CASE recipe = "static_job" -> static_job_run(atoms, calc, d)
               [] recipe = "relax_job" ->
                     relax_job_run(atoms, calc, opt_flags(has_sella, opt_params), d)
               [] recipe = "_add_stdev_and_hess" ->
                     add_stdev_and_hess_run(atoms, calc, d)
               [] OTHER -> freq_job_run(atoms, calc, d)
    /\ mpc' = "summarize"
    /\ UNCHANGED <<scriptVars, wfVars, has_mace, has_sella, recipe, atoms,
                   atoms0, calc_kwargs, opt_params, calc, output, merr>>

\* Lines 79-81, 128, 175-192, 229
Summarize ==
    /\ mpc = "summarize"
    /\ output' = summarize(final_atoms, RecipeName(recipe))
    /\ mpc' = "returned"
    /\ UNCHANGED <<scriptVars, wfVars, has_mace, has_sella, recipe, atoms,
                   atoms0, calc_kwargs, opt_params, calc, final_atoms, merr>>

ScriptNext ==
    \/ ReadSettingsPath
    \/ LoadSettings
    \/ SubstituteEnv
    \/ BuildTables
    \/ SelectHandlers
    \/ SelectValidators
    \/ PopulateSettings
    \/ PrepareCommands
    \/ ConstructJob
    \/ ConstructCustodian
    \/ RunCustodian
    \/ RunVasp
    \/ LogReturnCode

Init == ScriptInit /\ WfIdle /\ MaceIdle

Next == ScriptNext

Spec == Init /\ [][Next]_vars

ScriptOff == pc = "idle" /\ environ = <<>> /\ files = <<>> /\ ScriptIdle

WfNext ==
    \/ \E e \in Engines : Call(e)
    \/ \E e \in Engines : Compute(e)
    \/ \E e \in Engines : \E i \in 1..Len(tasks[e]) : Start(e, i)
    \/ \E e \in Engines : \E i \in 1..Len(tasks[e]) : Finish(e, i)
    \/ \E e \in Engines : \E i \in 1..Len(tasks[e]) : Spawn(e, i)
    \/ \E e \in Engines : \E i \in 1..Len(tasks[e]) : Join(e, i)
    \/ \E e \in Engines : Fetch(e)

WfSpecInit == ScriptOff /\ WfInit /\ MaceIdle

WfSpec == WfSpecInit /\ [][WfNext]_vars

\* An engine does not leave a task that can run, or a call the test can
\* make, waiting for ever.
WfFairSpec == WfSpecInit /\ [][WfNext]_vars /\ WF_vars(WfNext)

MaceNext ==
    \/ CheckRequires
    \/ BuildCalculator
    \/ RunCalculation
    \/ Summarize

MaceSpecInit == ScriptOff /\ WfIdle /\ MaceInit

MaceSpec == MaceSpecInit /\ [][MaceNext]_vars

-----------------------------------------------------------------------------
(* Properties of run_vasp_custodian.py *)

\* the script has completed the step named e
Did(e) == \E i \in 1..Len(events) : events[i] = e

\* v is a string whose first character is $
IsDollar(v) == v.t = "str" /\ v.s # <<>> /\ Head(v.s) = "$"

\* v is a $-string naming a variable that is not set
IsMissing(v) == IsDollar(v) /\ Tail(v.s) \notin DOMAIN environ

NothingStarted == runs = 0 /\ calls = <<>>

NothingBuilt == jobs = <<>> /\ c = Unbound /\ NothingStarted

\* C1: once the substitution step is over, every settings value that was
\* loaded as a string beginning with $ holds the value of the environment
\* variable named by the rest of that string; and when a loaded $-string
\* names a variable that is not set, the substitution step is never
\* completed, neither Custodian.run() nor the VASP command is started, and
\* the script ends with an EnvironmentError naming a variable that is not set.
C1_SubstitutionOrEnvironmentError ==
    loaded # Unbound =>
        /\ Did("substitute") =>
             \A i \in 1..Len(loaded) :
                IsDollar(loaded[i][2]) =>
                    /\ Tail(loaded[i][2].s) \in DOMAIN environ
                    /\ config[i] = <<loaded[i][1],
                                     VStr(environ[Tail(loaded[i][2].s)])>>
        /\ (\E i \in 1..Len(loaded) : IsMissing(loaded[i][2])) =>
             /\ pc \in {"substitute", "failed"}
             /\ NothingStarted
             /\ pc = "failed" =>
                  /\ err.type = "EnvironmentError"
                  /\ \E i \in 1..Len(loaded) :
                        /\ IsMissing(loaded[i][2])
                        /\ err.msg = <<"Missing environment variable ">>
                                        \o Tail(loaded[i][2].s)

FirstUnknown(flags, table) ==
    flags[CHOOSE i \in 1..Len(flags) :
            /\ flags[i] \notin DOMAIN table
            /\ \A j \in 1..(i - 1) : flags[j] \in DOMAIN table]

HasUnknown(flags, table) == \E i \in 1..Len(flags) : flags[i] \notin DOMAIN table

\* C2: once the lookup tables are built, a name of the `handlers` list that
\* is no key of handlers_dict (or, the handlers being selected, a name of
\* the `validators` list that is no key of validators_dict) keeps the
\* script from going past that selection: it ends with a ValueError naming
\* the first unknown entry, and no VaspJob or Custodian is constructed and
\* neither Custodian.run() nor the VASP command is started.
C2_UnknownNameRaisesBeforeAnyJob ==
    /\ (Did("handlers_dict") /\ HasUnknown(Lookup(config, "handlers").l, handlers_dict)) =>
         /\ pc \in {"handlers", "failed"}
         /\ NothingBuilt
         /\ pc = "failed" =>
              err = Error("ValueError",
                          <<"Unknown VASP error handler: ",
                            FirstUnknown(Lookup(config, "handlers").l, handlers_dict)>>)
    /\ (Did("handlers") /\ HasUnknown(Lookup(config, "validators").l, validators_dict)) =>
         /\ pc \in {"validators", "failed"}
         /\ NothingBuilt
         /\ pc = "failed" =>
              err = Error("ValueError",
                          <<"Unknown VASP validator: ",
                            FirstUnknown(Lookup(config, "validators").l, validators_dict)>>)

C2_Witness ==
    /\ pc = "failed"
    /\ Did("handlers")
    /\ err.type = "ValueError"
    /\ err.msg[2] = "StdErrHandler"
    /\ Len(validators) = 1

\* C3: when VASP_CUSTODIAN_SETTINGS is not set the script ends with an
\* EnvironmentError having opened no file, built no table, constructed no
\* job and started nothing; when it is set, the only file ever opened is
\* the one at the path it holds, and the settings are that file's content.
C3_SettingsPathFromEnvironment ==
    /\ SETTINGS_VAR \notin DOMAIN environ =>
         /\ opened = <<>> /\ loaded = Unbound /\ config = Unbound
         /\ handlers_dict = Unbound /\ validators_dict = Unbound
         /\ NothingBuilt
         /\ pc \in {"start", "failed"}
         /\ pc = "failed" => err.type = "EnvironmentError"
    /\ SETTINGS_VAR \in DOMAIN environ =>
         /\ opened \in {<<>>, <<environ[SETTINGS_VAR]>>}
         /\ loaded # Unbound =>
              /\ opened = <<environ[SETTINGS_VAR]>>
              /\ loaded = files[environ[SETTINGS_VAR]]

C3_Witness ==
    /\ SETTINGS_VAR \notin DOMAIN environ
    /\ pc = "failed"
    /\ err.type = "EnvironmentError"

CustodianOrder ==
    <<"settings_path", "load", "substitute", "handlers_dict", "handlers",
      "validators", "populate", "prepare", "VaspJob", "Custodian",
      "Custodian.run">>

PlainOrder ==
    <<"settings_path", "load", "substitute", "handlers_dict", "handlers",
      "validators", "populate", "prepare", "subprocess.call", "log">>

IsPrefix(a, b) == Len(a) <= Len(b) /\ a = SubSeq(b, 1, Len(a))

\* C4: the steps of a run are done in one fixed order, each at most once
\* (the steps done so far are a prefix of that order); a run that reaches
\* Custodian.run() has loaded, substituted, built the tables, selected the
\* handlers and validators, constructed exactly one VaspJob and one
\* Custodian and called run() exactly once; and VaspErrorHandler is
\* constructed from the substituted vtst_swaps, never from a $-string
\* whose variable is set.
C4_FixedOrderOfSteps ==
    /\ IsPrefix(events, CustodianOrder) \/ IsPrefix(events, PlainOrder)
    /\ runs <= 1 /\ Len(jobs) <= 1 /\ Len(opened) <= 1
    /\ runs = 1 =>
         /\ events = CustodianOrder
         /\ Len(jobs) = 1 /\ Len(opened) = 1
         /\ c # Unbound /\ c.jobs = jobs
    /\ handlers_dict # Unbound =>
         /\ Did("substitute")
         /\ handlers_dict["VaspErrorHandler"].arg = Lookup(config, "vtst_swaps")
         /\ IsDollar(Lookup(loaded, "vtst_swaps")) =>
              handlers_dict["VaspErrorHandler"].arg
                 = VStr(environ[Tail(Lookup(loaded, "vtst_swaps").s)])

C4_Witness ==
    /\ pc = "done"
    /\ runs = 1
    /\ IsDollar(Lookup(loaded, "vtst_swaps"))
    /\ Len(handlers) = 3

\* C5: with custodian_enabled false no VaspJob or Custodian is ever
\* constructed and Custodian.run() is never called; the VASP command is
\* given to subprocess.call at most once, and exactly once in a run that
\* gets to the branch; whatever code it returns, the script raises nothing
\* after the call, logs that code and ends.
C5_NoRetryWithoutCustodian ==
    (custodian_enabled # Unbound /\ ~Truthy(custodian_enabled)) =>
        /\ jobs = <<>> /\ c = Unbound /\ runs = 0
        /\ Len(calls) <= 1
        /\ pc = "failed" => calls = <<>>
        /\ pc \in {"returned", "done"} =>
             /\ calls = <<vasp_cmd.s>>
             /\ err = NoError
             /\ return_code \in {VInt(n) : n \in 0..MaxReturnCode}
        /\ pc = "done" =>
             /\ Len(log) = 2
             /\ log[2].code = return_code

C5_Witness ==
    /\ pc = "done"
    /\ ~Truthy(custodian_enabled)
    /\ return_code = VInt(1)
    /\ Len(calls) = 1

\* the settings file gives no vasp_job_kwargs, or gives it as null
JobKwargsMissing == Get(loaded, "vasp_job_kwargs", None) = None

\* C11: a run whose settings file has no vasp_job_kwargs entry (or has it
\* as null) and that has selected its validators raises nothing before VASP
\* is started, and once the commands are prepared its job keyword arguments
\* are exactly auto_npar = False and the split gamma command.
C11_MissingJobKwargsTreatedAsEmpty ==
    (loaded # Unbound /\ JobKwargsMissing /\ Did("validators")) =>
        /\ pc = "failed" => runs = 1
        /\ Did("prepare") =>
             vasp_job_kwargs =
                VDict(("auto_npar" :> VBool(FALSE))
                      @@ ("gamma_vasp_cmd" :> VList(Split(vasp_gamma_cmd.s))))

\* C12: the VaspJob of a run is given the auto_npar of the settings'
\* vasp_job_kwargs when that mapping has one, and False when it has none.
C12_AutoNparOnlyWhenAbsent ==
    (jobs # <<>> /\ Get(loaded, "vasp_job_kwargs", None).t = "dict") =>
        LET kw == Lookup(loaded, "vasp_job_kwargs").d IN
        jobs[1].kwargs["auto_npar"] =
            IF "auto_npar" \in DOMAIN kw THEN kw["auto_npar"] ELSE VBool(FALSE)

\* C13: the Custodian of a run is given one handler per name of the
\* settings' `handlers` list, of that name's class and in the list's order,
\* followed by one more WalltimeHandler carrying custodian_wall_time when
\* that is set and by nothing when it is not; one validator per name of the
\* `validators` list, in order; and as max_errors the settings' value, or 5
\* when the settings have none.
C13_CustodianGetsSelectedHandlers ==
    c # Unbound =>
        LET hs == Lookup(loaded, "handlers").l
            vs == Lookup(loaded, "validators").l
            wt == Get(config, "custodian_wall_time", None)
        IN
        /\ Len(c.handlers) = Len(hs) + (IF wt # None THEN 1 ELSE 0)
        /\ \A i \in 1..Len(hs) : c.handlers[i].cls = hs[i]
        /\ \A i \in 1..Len(hs) : hs[i] = "WalltimeHandler" => c.handlers[i].arg = None
        /\ wt # None => c.handlers[Len(hs) + 1] = Obj("WalltimeHandler", wt)
        /\ Len(c.validators) = Len(vs)
        /\ \A i \in 1..Len(vs) : c.validators[i].cls = vs[i]
        /\ c.max_errors = Get(loaded, "max_errors", VInt(5))

C13_Witness ==
    /\ c # Unbound
    /\ Lookup(loaded, "handlers").l = <<"WalltimeHandler", "VaspErrorHandler">>
    /\ wall_time = VInt(10)
    /\ Len(c.handlers) = 3
    /\ Len(c.validators) = 2
    /\ c.max_errors = VInt(5)

\* C17: once the substitution step is over, every settings value that was
\* loaded as anything but a string beginning with $ (a number, a boolean,
\* null, a list, a mapping, any other string, the empty string) is what it
\* was when loaded; and when no loaded $-string names a variable that is
\* not set, the step is completed.
C17_SubstitutionLeavesOtherValues ==
    (loaded # Unbound /\ pc # "substitute") =>
        /\ \A i \in 1..Len(loaded) :
              ~IsDollar(loaded[i][2]) => config[i] = loaded[i]
        /\ (\A i \in 1..Len(loaded) : ~IsMissing(loaded[i][2])) =>
              Did("substitute")

-----------------------------------------------------------------------------
(* Properties of the @job / @subflow workflows *)

\* the values a fetched result holds, in order
Values(v) ==
    CASE v.t \in {"list", "tuple"} -> v.l
      [] v.t = "dict" -> <<v.d["result1"], v.d["result2"]>>
      [] OTHER -> <<v>>

Started(t) == t.state \in {"running", "joining", "done"}

\* C6: under either engine a task has not started while a job whose handle
\* it was given is unfinished, and the arguments it runs with are the
\* values those jobs resolved to; the workflow mult(add(a, b), c), once
\* fetched, is (a + b) * c.
C6_ConsumerWaitsForProducer ==
    \A e \in Engines :
        /\ \A i \in 1..Len(tasks[e]) :
              Started(tasks[e][i]) =>
                 \A k \in 1..Len(tasks[e][i].args) :
                    tasks[e][i].args[k].ref =>
                       /\ tasks[e][tasks[e][i].args[k].id].state = "done"
                       /\ tasks[e][i].got[k] = tasks[e][tasks[e][i].args[k].id].value
        /\ (workflow = "chain" /\ result[e] # Unbound) =>
              result[e] = VInt((inputs[1].n + inputs[2].n) * inputs[3].n)

C6_Witness ==
    /\ workflow = "chain"
    /\ inputs = <<VInt(1), VInt(2), VInt(3)>>
    /\ \A e \in Engines : result[e] = VInt(9)

PairDone ==
    \A e \in Engines :
        /\ result[e] # Unbound
        /\ \A k \in 1..2 : tasks[e][k].state = "done"

PairOwnResults ==
    workflow = "pair" =>
        \A e \in Engines :
            /\ \A k \in 1..Len(tasks[e]) :
                  tasks[e][k].state = "done" =>
                      tasks[e][k].value = relax_job(inputs[k])
            /\ result[e] # Unbound =>
                  Values(result[e]) = <<relax_job(inputs[1]), relax_job(inputs[2])>>

-----------------------------------------------------------------------------
(* Properties of the MACE recipes *)

C14_AllRecipesUseFloat64 ==
    calc # Unbound =>
        /\ "default_dtype" \in DOMAIN calc
        /\ calc["default_dtype"] = "float64"

\* the caller's keywords k of d are in m at the caller's value, those
\* given as Remove are not in m
CallerWins(d, m) ==
    \A k \in DOMAIN d :
        IF d[k] = Remove THEN k \notin DOMAIN m
        ELSE k \in DOMAIN m /\ m[k] = d[k]

\* C15: the calculator is constructed with every keyword the caller gave,
\* at the caller's value (and without the keys the caller gave as Remove),
\* and with nothing more than these, the recipe's defaults and the
\* precision keyword; freq_job's calculator has hess_method = "autograd"
\* when the caller gave no hess_method.  The optimizer of relax_job is made
\* with every key of opt_params at the caller's value, with optimizer =
\* Sella when sella is installed and opt_params has no optimizer, and with
\* nothing more; with opt_params = None it is made with the defaults alone.
C15_CallerKeywordsWin ==
    /\ calc # Unbound =>
         /\ CallerWins(calc_kwargs, calc)
         /\ (recipe = "freq_job" /\ "hess_method" \notin DOMAIN calc_kwargs) =>
               calc["hess_method"] = "autograd"
         /\ DOMAIN calc \subseteq
               DOMAIN calc_kwargs \cup {"default_dtype", "default_dtypes"}
                  \cup (IF recipe = "freq_job" THEN {"hess_method"} ELSE {})
    /\ (recipe = "relax_job" /\ final_atoms # Unbound) =>
         LET flags == final_atoms.opt_flags
             params == IF opt_params = None THEN <<>> ELSE opt_params.d
             sella == has_sella /\ "optimizer" \notin DOMAIN params
         IN
         /\ CallerWins(params, flags)
         /\ sella => flags["optimizer"] = "Sella"
         /\ DOMAIN flags \subseteq
               DOMAIN params \cup (IF sella THEN {"optimizer"} ELSE {})
         /\ opt_params = None =>
               flags = (IF has_sella THEN "optimizer" :> "Sella" ELSE <<>>)

C15_Witness ==
    /\ recipe = "freq_job"
    /\ mpc = "returned"
    /\ calc_kwargs = ("hess_method" :> "fd")
    /\ calc["hess_method"] = "fd"

\* C16: when MACE is not installed a call of static_job, relax_job or
\* freq_job constructs no calculator, runs no calculation and returns
\* nothing, and ends with the error "MACE must be installed. Refer to the
\* quacc documentation."; when it is installed no call ends with that error.
C16_RequiresMace ==
    recipe \in {"static_job", "relax_job", "freq_job"} =>
        /\ ~has_mace =>
             /\ calc = Unbound /\ final_atoms = Unbound /\ output = Unbound
             /\ mpc \in {"call", "raised"}
             /\ mpc = "raised" =>
                  merr.msg = <<"MACE must be installed. Refer to the quacc documentation.">>
        /\ has_mace =>
             merr.msg # <<"MACE must be installed. Refer to the quacc documentation.">>

C16_Witness ==
    /\ recipe = "freq_job"
    /\ ~has_mace
    /\ mpc = "raised"
    /\ merr.type = "RuntimeError"

====
